---- MODULE Spec2Model ----
(***************************************************************************)
(* Model of the ingestion pipeline, the index, the hybrid retriever, the    *)
(* chat query and the chunker of the fastapi-ml service (app/main.py,      *)
(* app/database.py, app/services/opensearch.py,                            *)
(* app/services/hybrid_retriever.py, app/services/retriever.py,            *)
(* app/services/parser.py, app/services/text_cleaner.py,                   *)
(* app/services/webhook_service.py).                                       *)
(***************************************************************************)
EXTENDS Integers, Sequences, FiniteSets, TLC

\* ------------------------------------------------------------------------
\* Bounds of the model
\* ------------------------------------------------------------------------
MaxRuns == 2
MaxChunks == 2
MaxHits == 3
MaxTopK == 2
MaxTextLen == 4
MaxChunkSize == 3
MaxOverlap == 3

Docs == {"d1", "d2"}
Divisions == {"A", "B"}
Filenames == {"f1", "f2"}

None == "None"

\* ------------------------------------------------------------------------
\* State
\* ------------------------------------------------------------------------
VARIABLES
    documents,   \* the documents table: Docs -> row
    index,       \* the OpenSearch index: set of records, one per _id
    run,         \* the latest parse request and its background run: its
                 \* position, its arguments, the calls it has made (log)
                 \* and the statuses its updates have committed (persisted)
    nreq,        \* number of parse requests submitted so far
    pending,     \* per document: the PATCH calls for the flag still in flight
    lastStore,   \* per document: request number of the last successful store
    result_threshold,  \* settings.result_threshold, as a score * ScoreScale
    fusion,      \* one call of HybridRetriever.search on given hits
    chat,        \* one POST /chat request: its position in
                 \* process_chat_query, its arguments, the calls it has made
    chunker,     \* one call of DocumentParser._chunk_text: the loop's locals
    pdf,         \* one call of DocumentParser.parse_document on a PDF file
    deletion     \* the delete-by-document requests answered so far

vars == <<documents, index, run, nreq, pending, lastStore, result_threshold, fusion,
         chat, chunker, pdf, deletion>>
ingestVars == <<documents, index, run, nreq, pending, lastStore>>

\* Lifecycle statuses of a document (database.py Document.status).
Statuses == {"uploaded", "parsing", "parsed", "parsing_failed", "embedding",
             "embedded", "embedding_failed", "processing_failed"}

FailureStatuses == {"parsing_failed", "embedding_failed", "processing_failed"}

\* What the object storage holds under the requested path when the parse
\* request arrives: nothing, bytes the parser cannot read, bytes without
\* text, or bytes with text that chunks into n pieces.
FileContents ==
    {[kind |-> "missing", n |-> 0],
     [kind |-> "unparseable", n |-> 0],
     [kind |-> "blank", n |-> 0]}
    \cup {[kind |-> "text", n |-> k] : k \in 1..MaxChunks}

\* The value of an Optional[List]: None, or a list.
NoChunks == [is_none |-> TRUE, list |-> <<>>]
SomeChunks(l) == [is_none |-> FALSE, list |-> l]

IdleRun == [pc |-> "idle", document_id |-> None, req |-> 0, file |-> [kind |-> "missing", n |-> 0],
            filename |-> None, division_id |-> None, is_active |-> FALSE,
            chunks |-> NoChunks, http |-> 0, log |-> <<>>, persisted |-> <<>>,
            delivered |-> <<>>]

\* ------------------------------------------------------------------------
\* Pure helpers
\* ------------------------------------------------------------------------
StatusEvent(s) == [kind |-> "status", value |-> s, stage |-> None]
NotifyEvent(s, stage) == [kind |-> "notify", value |-> s, stage |-> stage]

\* DocumentParser.parse_document: None for an unsupported type or an
\* extraction error, the empty list for text that is empty after stripping,
\* otherwise the chunks of the text.
ChunkText(filename, i, ver) == <<filename, i, ver>>

parser_parse_document(file, filename, ver) ==
    IF file.kind = "unparseable" THEN NoChunks
    ELSE IF file.kind = "blank" THEN SomeChunks(<<>>)
    ELSE SomeChunks([i \in 1..file.n |->
            [index |-> i - 1, text |-> ChunkText(filename, i - 1, ver)]])

\* `if not chunks` / `if not embeddings_data`: None and the empty list are falsy.
Falsy(x) == x.is_none \/ x.list = <<>>

\* EmbeddingService.generate_embeddings: one EmbeddingData per chunk.
generate_embeddings(chunks, document_id, filename, division_id, is_active) ==
    [i \in 1..Len(chunks) |->
        [document_id |-> document_id,
         chunk_text |-> chunks[i].text,
         chunk_index |-> chunks[i].index,
         is_active |-> is_active,
         filename |-> filename,
         division_id |-> division_id]]

\* The _id of an index record.
RecordId(rec) == <<rec.document_id, rec.chunk_index>>

SeqToSet(s) == {s[i] : i \in DOMAIN s}

\* OpenSearchService.store_document: bulk "index" of one body per embedding
\* under _id = "<document_id>_<chunk_index>"; an existing _id is replaced.
store_document(idx, embeddings_data) ==
    LET new == SeqToSet(embeddings_data)
        ids == {RecordId(e) : e \in new}
    IN  {rec \in idx : RecordId(rec) \notin ids} \cup new

\* An update_by_query whose query matches the records of every document.
update_by_query_active_MatchAll(idx, document_id, is_active) ==
    {[rec EXCEPT !.is_active = is_active] : rec \in idx}

\* OpenSearchService.update_document_active_status: update_by_query that
\* sets is_active on every record whose document_id matches.
update_by_query_active(idx, document_id, is_active) ==
    {IF rec.document_id = document_id
        THEN [rec EXCEPT !.is_active = is_active]
        ELSE rec : rec \in idx}

\* ------------------------------------------------------------------------
\* The index backend's answer to a query.  The relevance of a record for
\* the query is the backend's business; it is a fixed function of the
\* query and of the content of the record, different for the dense and the
\* lexical scoring.
\* ------------------------------------------------------------------------
Queries == {"q1", "q2"}

DocRelevance(q, document_id) ==
    IF q = "q1" THEN (IF document_id = "d1" THEN 1 ELSE 2)
    ELSE (IF document_id = "d1" THEN 2 ELSE 1)

\* kNN score of a record: every record has one.
VectorScore(q, rec) == 10 * DocRelevance(q, rec.document_id) + (9 - rec.chunk_index)

\* BM25 score of a record: 0 when no term of the query occurs in the chunk.
Bm25Score(q, rec) ==
    IF q = "q2" /\ rec.chunk_index = 0 THEN 0
    ELSE 10 * (3 - DocRelevance(q, rec.document_id)) + rec.chunk_index + 1

\* The hits of a search: best score first, at most size of them.
Hit(rec, score) ==
    [score |-> score, chunk_text |-> rec.chunk_text, chunk_index |-> rec.chunk_index,
     filename |-> rec.filename, is_active |-> rec.is_active,
     document_id |-> rec.document_id, division_id |-> rec.division_id]

Better(a, b) ==
    \/ a.score > b.score
    \/ a.score = b.score /\ a.document_id # b.document_id
                         /\ a.document_id = "d1"
    \/ a.score = b.score /\ a.document_id = b.document_id
                         /\ a.chunk_index < b.chunk_index

TopHits(hits, size) ==
    LET pos(h) == 1 + Cardinality({x \in hits : Better(x, h)})
        n == IF Cardinality(hits) < size THEN Cardinality(hits) ELSE size
    IN  [i \in 1..n |-> CHOOSE h \in hits : pos(h) = i]

\* OpenSearchService.search_similar: BM25 match on chunk_text, filtered by
\* is_active = true and division_id.
search_similar(idx, q, division_id, top_k) ==
    TopHits({Hit(rec, Bm25Score(q, rec)) :
                rec \in {r \in idx : /\ r.is_active = TRUE
                                     /\ r.division_id = division_id
                                     /\ Bm25Score(q, r) > 0}}, top_k)

\* A kNN search whose filter leaves the division out.
search_similar_vector_AnyDivision(idx, q, division_id, top_k) ==
    TopHits({Hit(rec, VectorScore(q, rec)) :
                rec \in {r \in idx : r.is_active = TRUE}}, top_k)

\* OpenSearchService.search_similar_vector: kNN on the embedding, filtered
\* by is_active = true and division_id.
search_similar_vector(idx, q, division_id, top_k) ==
    TopHits({Hit(rec, VectorScore(q, rec)) :
                rec \in {r \in idx : /\ r.is_active = TRUE
                                     /\ r.division_id = division_id}}, top_k)

\* distance = 1.0 / (1.0 + score), kept as a fraction.
Distance(num, den) == [num |-> num, den |-> den]
ScoreToDistance(score) == Distance(1, 1 + score)

SimilarChunk(chunk_text, chunk_index, filename, distance) ==
    [chunk_text |-> chunk_text, chunk_index |-> chunk_index,
     filename |-> filename, distance |-> distance]

\* The conversion of the hits in HybridRetriever._vector_search: the
\* document id and the division id of the hit are not carried over.
ToSimilarChunks(os_results) ==
    [i \in DOMAIN os_results |->
        SimilarChunk(os_results[i].chunk_text, os_results[i].chunk_index,
                     os_results[i].filename, ScoreToDistance(os_results[i].score))]

_vector_search(idx, q, division_id, top_k) ==
    ToSimilarChunks(search_similar_vector(idx, q, division_id, top_k))

_opensearch_search(idx, q, division_id, top_k) ==
    search_similar(idx, q, division_id, top_k)

\* ------------------------------------------------------------------------
\* HybridRetriever._combine_results
\* ------------------------------------------------------------------------
\* vector_weight and bm25_weight of the constructor, in tenths; they sum
\* to 1.0, so the constructor leaves them as they are.
VectorWeight == 7
Bm25Weight == 3
WeightScale == 10

\* Ranks are 1-based; float('inf') marks a chunk absent from a branch.
Inf == 0

RECURSIVE Gcd(_, _)
Gcd(a, b) == IF b = 0 THEN a ELSE Gcd(b, a % b)

RECURSIVE LcmUpTo(_)
LcmUpTo(n) == IF n <= 1 THEN 1 ELSE (LcmUpTo(n - 1) * n) \div Gcd(LcmUpTo(n - 1), n)

\* Scores are kept as integers: a score x is held as x * ScoreScale.
MaxRank == IF 2 * MaxChunks > MaxHits THEN 2 * MaxChunks ELSE MaxHits
RankScale == LcmUpTo(MaxRank)
ScoreScale == WeightScale * RankScale

\* f"{chunk.filename}_{chunk.chunk_index}"
_get_chunk_id(chunk) == <<chunk.filename, chunk.chunk_index>>

\* f"{result.document_id}_{result.chunk_index}"
_get_opensearch_chunk_id(result) == <<result.document_id, result.chunk_index>>

\* 1.0 / rank, 0.0 for a chunk absent from the branch or an empty branch.
_normalize_rank_score(rank, total_results) ==
    IF rank = Inf \/ total_results = 0 THEN 0 ELSE RankScale \div rank

\* chunk_map is a dict: an assignment to a key it holds replaces the value
\* in place, a new key is added at the end.
KeyIndex(map, key) ==
    IF \E j \in DOMAIN map : map[j].key = key
    THEN CHOOSE j \in DOMAIN map : map[j].key = key
    ELSE 0

RECURSIVE AddVectorResults(_, _, _)
AddVectorResults(map, vector_results, i) ==
    IF i > Len(vector_results) THEN map
    ELSE LET chunk == vector_results[i]
             entry == [key |-> _get_chunk_id(chunk), chunk |-> chunk,
                       vector_rank |-> i, bm25_rank |-> Inf]
             j == KeyIndex(map, entry.key)
         IN  AddVectorResults(IF j = 0 THEN Append(map, entry)
                              ELSE [map EXCEPT ![j] = entry],
                              vector_results, i + 1)

RECURSIVE AddBm25Results(_, _, _)
AddBm25Results(map, bm25_results, i) ==
    IF i > Len(bm25_results) THEN map
    ELSE LET result == bm25_results[i]
             key == _get_opensearch_chunk_id(result)
             j == KeyIndex(map, key)
             similar_chunk == SimilarChunk(result.chunk_text, result.chunk_index,
                                           result.filename,
                                           ScoreToDistance(result.score))
         IN  AddBm25Results(
                IF j # 0 THEN [map EXCEPT ![j].bm25_rank = i]
                ELSE Append(map, [key |-> key, chunk |-> similar_chunk,
                                  vector_rank |-> Inf, bm25_rank |-> i]),
                bm25_results, i + 1)

\* Lines 169-211: the chunk map, in insertion order.
ChunkMap(vector_results, bm25_results) ==
    AddBm25Results(AddVectorResults(<<>>, vector_results, 1), bm25_results, 1)

\* Lines 217-228: the hybrid score of an entry of the chunk map.
HybridScore(data, vector_results, bm25_results) ==
    VectorWeight * _normalize_rank_score(data.vector_rank, Len(vector_results))
    + Bm25Weight * _normalize_rank_score(data.bm25_rank, Len(bm25_results))

\* A list left in the order of the chunk map.
SortByScore_Unsorted(pairs) == pairs

\* list.sort(key=score, reverse=True): descending and stable.
RECURSIVE SortByScore(_)
SortByScore(pairs) ==
    IF pairs = <<>> THEN <<>>
    ELSE LET rest == SortByScore(SubSeq(pairs, 1, Len(pairs) - 1))
             last == pairs[Len(pairs)]
             ahead == {k \in DOMAIN rest : rest[k].score >= last.score}
             n == Cardinality(ahead)
         IN  SubSeq(rest, 1, n) \o <<last>> \o SubSeq(rest, n + 1, Len(rest))

\* Lines 213-248: the scored entries that pass the threshold, in map order.
ScoredEntries(vector_results, bm25_results, threshold) ==
    LET map == ChunkMap(vector_results, bm25_results)
        scored == [j \in DOMAIN map |->
                    [score |-> HybridScore(map[j], vector_results, bm25_results),
                     chunk |-> map[j].chunk]]
    IN  SelectSeq(scored, LAMBDA e : ~(e.score < threshold))

\* A slice that keeps one entry more.
TakeOneMore(seq, k) == SubSeq(seq, 1, IF Len(seq) < k + 1 THEN Len(seq) ELSE k + 1)

\* hybrid_results[:top_k]
Take(seq, k) == SubSeq(seq, 1, IF Len(seq) < k THEN Len(seq) ELSE k)

_combine_results(vector_results, bm25_results, top_k, threshold) ==
    LET hybrid_results == SortByScore(ScoredEntries(vector_results, bm25_results,
                                                    threshold))
        kept == Take(hybrid_results, top_k)
    IN  [j \in DOMAIN kept |->
            SimilarChunk(kept[j].chunk.chunk_text, kept[j].chunk.chunk_index,
                         kept[j].chunk.filename,
                         Distance(ScoreScale, ScoreScale + kept[j].score))]

\* max(top_k * 2, 10)
RetrievalCount(top_k) == IF top_k * 2 > 10 THEN top_k * 2 ELSE 10

\* HybridRetriever.search
HybridSearch(idx, q, division_id, top_k, threshold) ==
    _combine_results(_vector_search(idx, q, division_id, RetrievalCount(top_k)),
                     _opensearch_search(idx, q, division_id, RetrievalCount(top_k)),
                     top_k, threshold)

\* RAGService._retrieve_similar_chunks_fallback, through
\* DatabaseManager.search_similar_embeddings.
_retrieve_similar_chunks_fallback(idx, q, division_id, top_k) ==
    ToSimilarChunks(search_similar_vector(idx, q, division_id, top_k))

\* ------------------------------------------------------------------------
\* Positions of process_document_parsing
\* ------------------------------------------------------------------------
UpdatePcs == {"upd_parsing", "upd_parsing_failed", "upd_parsed", "upd_embedding",
              "upd_embedding_failed", "upd_store_failed", "upd_embedded",
              "upd_processing_failed"}

NotifyPcs == {"ntf_parsing", "ntf_parsing_failed", "ntf_parsed", "ntf_embedding",
              "ntf_embedding_failed", "ntf_store_failed", "ntf_embedded",
              "ntf_processing_failed"}

\* The status each update_document_status call of the run writes.
StatusAt(pc) ==
    CASE pc = "upd_parsing" -> "parsing"
      [] pc = "upd_parsing_failed" -> "parsing_failed"
      [] pc = "upd_parsed" -> "parsed"
      [] pc = "upd_embedding" -> "embedding"
      [] pc = "upd_embedding_failed" -> "embedding_failed"
      [] pc = "upd_store_failed" -> "embedding_failed"
      [] pc = "upd_embedded" -> "embedded"
      [] pc = "upd_processing_failed" -> "processing_failed"

\* The notification that follows each update (same suffix of the position).
AfterUpdate(pc) ==
    CASE pc = "upd_parsing" -> "ntf_parsing"
      [] pc = "upd_parsing_failed" -> "ntf_parsing_failed"
      [] pc = "upd_parsed" -> "ntf_parsed"
      [] pc = "upd_embedding" -> "ntf_embedding"
      [] pc = "upd_embedding_failed" -> "ntf_embedding_failed"
      [] pc = "upd_store_failed" -> "ntf_store_failed"
      [] pc = "upd_embedded" -> "ntf_embedded"
      [] pc = "upd_processing_failed" -> "ntf_processing_failed"

\* WebhookService.notify_*: the status and the stage of the payload.
NotificationAt(pc) ==
    CASE pc = "ntf_parsing" -> NotifyEvent("parsing", "parsing")
      [] pc = "ntf_parsing_failed" -> NotifyEvent("failed", "parsing")
      [] pc = "ntf_parsed" -> NotifyEvent("parsed", "parsing_complete")
      [] pc = "ntf_embedding" -> NotifyEvent("embedding", "embedding")
      [] pc = "ntf_embedding_failed" -> NotifyEvent("failed", "embedding")
      [] pc = "ntf_store_failed" -> NotifyEvent("failed", "embedding")
      [] pc = "ntf_embedded" -> NotifyEvent("embedded", "embedding_complete")
      [] pc = "ntf_processing_failed" -> NotifyEvent("failed", "processing")

\* Where the run continues after a notification.
AfterNotify(pc) ==
    CASE pc = "ntf_parsing" -> "parse"
      [] pc = "ntf_parsed" -> "upd_embedding"
      [] pc = "ntf_embedding" -> "embed"
      [] OTHER -> "done"

Returned(r) == r.pc \in {"rejected", "done"}
InProgress(r) == r.pc \notin {"idle", "rejected", "done"}

\* ------------------------------------------------------------------------
\* Init
\* ------------------------------------------------------------------------
\* The values settings.result_threshold is configured to: 0.0, 0.3 or 0.8
\* (a minimum fused score, held as score * ScoreScale).
Thresholds == {0, 3 * RankScale, 8 * RankScale}

IdleFusion == [vector_hits |-> <<>>, bm25_hits |-> <<>>, top_k |-> 0,
               vector_done |-> FALSE, bm25_done |-> FALSE, combined |-> FALSE,
               vector_failed |-> FALSE, bm25_failed |-> FALSE,
               vector_results |-> <<>>, bm25_results |-> <<>>, result |-> <<>>]

\* The value of an Optional[str], of an Optional[ChatResult]: None, or one.
NoAnswer == [is_none |-> TRUE, text |-> <<>>]
SomeAnswer(t) == [is_none |-> FALSE, text |-> t]
NoResult == [is_none |-> TRUE]
NoRequest == [called |-> FALSE]
NoFaults == [vector |-> FALSE, bm25 |-> FALSE, fusing |-> FALSE]

\* No chat request has arrived.
IdleChat == [pc |-> "idle", query |-> None, division_id |-> None,
             conversation_id |-> FALSE, internal_api_key |-> FALSE,
             openai_client |-> FALSE, faults |-> NoFaults,
             embedding |-> "none", generation |-> "none",
             similar_chunks |-> <<>>, history_messages |-> <<>>,
             calls |-> <<>>, llm_request |-> NoRequest, answer |-> NoAnswer,
             result |-> NoResult, http |-> 0]

\* _chunk_text has not been called.
IdleChunker == [pc |-> "idle", input |-> <<>>, text |-> <<>>, filename |-> <<>>,
                chunk_size |-> 0, chunk_overlap |-> 0,
                start |-> 0, chunk_index |-> 0,
                chunks |-> <<>>, starts |-> <<>>, ends |-> <<>>]

\* parse_document has not been called on a PDF file.
IdlePdf == [pc |-> "idle", pages |-> <<>>, open_fails |-> FALSE,
            pdfminer |-> [raises |-> FALSE, text |-> <<>>],
            page_num |-> 0, text |-> <<>>, primary_completed |-> FALSE,
            raised |-> FALSE, calls |-> <<>>, outcome |-> None]

\* No delete request has been answered.
IdleDeletion == [route |-> None, document_id |-> None, completed |-> FALSE,
                 http |-> 0, during |-> 0]

DocRows == [division_id : Divisions, original_filename : Filenames,
            is_active : BOOLEAN, status : {"uploaded"}]

Init ==
    /\ documents \in {t \in [Docs -> DocRows] :
                        /\ t["d1"].division_id = "A"
                        /\ t["d1"].original_filename = "f1"
                        /\ t["d2"].division_id = "B"
                        /\ t["d2"].original_filename = "f2"}
    /\ index = {}
    /\ run = IdleRun
    /\ nreq = 0
    /\ pending = [d \in Docs |-> <<>>]
    /\ lastStore = [d \in Docs |-> 0]
    /\ result_threshold = 0
    /\ fusion = IdleFusion
    /\ pdf = IdlePdf
    /\ deletion = IdleDeletion
    /\ chat = IdleChat
    /\ chunker = IdleChunker

\* ------------------------------------------------------------------------
\* DatabaseManager.update_document_status: the UPDATE either commits or
\* fails (False is returned and the row keeps its status).
\* ------------------------------------------------------------------------
update_document_status(docs, d, status, ok) ==
    IF ok THEN [docs EXCEPT ![d].status = status] ELSE docs

\* ------------------------------------------------------------------------
\* POST /parse-document (main.py parse_document).  The caller submits a
\* request when the background run of the previous one has ended.
\* ------------------------------------------------------------------------
parse_document(d, file, ok) ==
    /\ nreq < MaxRuns
    /\ ~InProgress(run)
    /\ nreq' = nreq + 1
    /\ LET document_info == documents[d]
           base == [IdleRun EXCEPT !.document_id = d, !.req = nreq + 1,
                       !.file = file,
                       !.filename = document_info.original_filename,
                       !.division_id = document_info.division_id,
                       !.is_active = document_info.is_active]
       IN  IF file.kind = "missing"
           THEN \* download_file returned None: status written, 404 raised
                /\ documents' = update_document_status(documents, d, "parsing_failed", ok)
                /\ run' = [base EXCEPT !.pc = "rejected", !.http = 404,
                                !.log = <<StatusEvent("parsing_failed")>>,
                                !.persisted = IF ok THEN <<"parsing_failed">>
                                              ELSE <<>>]
           ELSE \* background task added, "Document parsing started" returned
                /\ ok
                /\ run' = [base EXCEPT !.pc = "upd_parsing", !.http = 200]
                /\ UNCHANGED documents
    /\ UNCHANGED <<index, pending, lastStore, result_threshold, fusion, chat, chunker, pdf, deletion>>

\* ------------------------------------------------------------------------
\* Steps of process_document_parsing
\* ------------------------------------------------------------------------
\* await db_manager.update_document_status(document_id, <status>)
RunUpdateStatus(ok) ==
    /\ run.pc \in UpdatePcs
    /\ documents' = update_document_status(documents, run.document_id,
                                           StatusAt(run.pc), ok)
    /\ run' = [run EXCEPT !.pc = AfterUpdate(run.pc),
                          !.log = Append(@, StatusEvent(StatusAt(run.pc))),
                          !.persisted = IF ok THEN Append(@, StatusAt(run.pc))
                                        ELSE @]
    /\ UNCHANGED <<index, nreq, pending, lastStore, result_threshold, fusion, chat, chunker, pdf, deletion>>

\* A run that gives up when a notification is not delivered.
RunNotify_AbortOnFailure(ok) ==
    /\ run.pc \in NotifyPcs
    /\ run' = [run EXCEPT !.pc = IF ok THEN AfterNotify(run.pc)
                                 ELSE IF run.pc = "ntf_processing_failed" THEN "done"
                                 ELSE "upd_processing_failed",
                          !.log = Append(@, NotificationAt(run.pc)),
                          !.delivered = Append(@, ok)]
    /\ UNCHANGED <<documents, index, nreq, pending, lastStore, result_threshold, fusion, chat, chunker, pdf, deletion>>

\* await webhook_service.notify_*(...): the POST is sent and answered with
\* 200 (True), or it fails, times out or is answered otherwise (False);
\* the call never raises and the returned bool is ignored by the run.
RunNotify(ok) ==
    /\ run.pc \in NotifyPcs
    /\ run' = [run EXCEPT !.pc = AfterNotify(run.pc),
                          !.log = Append(@, NotificationAt(run.pc)),
                          !.delivered = Append(@, ok)]
    /\ UNCHANGED <<documents, index, nreq, pending, lastStore, result_threshold, fusion, chat, chunker, pdf, deletion>>

\* A run that returns at once when the parser gave no chunks.
RunParse_ReturnOnFailure ==
    /\ run.pc = "parse"
    /\ LET chunks == parser_parse_document(run.file, run.filename, run.req)
       IN  run' = [run EXCEPT !.chunks = chunks,
                              !.pc = IF Falsy(chunks) THEN "done" ELSE "upd_parsed"]
    /\ UNCHANGED <<documents, index, nreq, pending, lastStore, result_threshold, fusion, chat, chunker, pdf, deletion>>

\* chunks = await document_parser.parse_document(...); if not chunks: ...
RunParse ==
    /\ run.pc = "parse"
    /\ LET chunks == parser_parse_document(run.file, run.filename, run.req)
       IN  run' = [run EXCEPT !.chunks = chunks,
                              !.pc = IF Falsy(chunks) THEN "upd_parsing_failed"
                                     ELSE "upd_parsed"]
    /\ UNCHANGED <<documents, index, nreq, pending, lastStore, result_threshold, fusion, chat, chunker, pdf, deletion>>

\* The EmbeddingData list the run holds after a successful embedding call.
RunEmbeddings ==
    generate_embeddings(run.chunks.list, run.document_id, run.filename,
                        run.division_id, run.is_active)

\* embeddings_data = await embedding_service.generate_embeddings(...): the
\* model backend answers or fails (the empty list is returned).
RunEmbed(ok) ==
    /\ run.pc = "embed"
    /\ LET embeddings_data == IF ok THEN RunEmbeddings ELSE <<>>
       IN  run' = [run EXCEPT !.pc = IF embeddings_data = <<>>
                                     THEN "upd_embedding_failed" ELSE "store"]
    /\ UNCHANGED <<documents, index, nreq, pending, lastStore, result_threshold, fusion, chat, chunker, pdf, deletion>>

\* success = await db_manager.store_embeddings(embeddings_dict_list): the
\* bulk request is executed, or it raises and False is returned.
RunStore(ok) ==
    /\ run.pc = "store"
    /\ index' = IF ok THEN store_document(index, RunEmbeddings) ELSE index
    /\ lastStore' = IF ok THEN [lastStore EXCEPT ![run.document_id] = run.req]
                    ELSE lastStore
    /\ run' = [run EXCEPT !.pc = IF ok THEN "upd_embedded" ELSE "upd_store_failed"]
    /\ UNCHANGED <<documents, nreq, pending, result_threshold, fusion, chat, chunker, pdf, deletion>>

\* An exception raised by the statements between the embedding call and the
\* store call (the list of all embeddings is formatted and copied there)
\* reaches the handler of the enclosing try.
RunUnexpectedError ==
    /\ run.pc = "store"
    /\ run' = [run EXCEPT !.pc = "upd_processing_failed"]
    /\ UNCHANGED <<documents, index, nreq, pending, lastStore, result_threshold, fusion, chat, chunker, pdf, deletion>>

\* ------------------------------------------------------------------------
\* Active flag
\* ------------------------------------------------------------------------
\* The external application changes is_active in the documents table and
\* then calls PATCH /vector/document/{id}/active.
SetDocumentActive(d, v) ==
    /\ pending[d] = <<>>
    /\ documents[d].is_active # v
    /\ documents' = [documents EXCEPT ![d].is_active = v]
    /\ pending' = [pending EXCEPT ![d] = <<v>>]
    /\ UNCHANGED <<index, run, nreq, lastStore, result_threshold, fusion, chat, chunker, pdf, deletion>>

\* PATCH /vector/document/{id}/active: on an error of the index the handler
\* answers 500 and the caller repeats the call.
update_document_active_status(d, ok) ==
    /\ pending[d] # <<>>
    /\ index' = IF ok THEN update_by_query_active(index, d, Head(pending[d])) ELSE index
    /\ pending' = IF ok THEN [pending EXCEPT ![d] = Tail(@)] ELSE pending
    /\ UNCHANGED <<documents, run, nreq, lastStore, result_threshold, fusion, chat, chunker, pdf, deletion>>

\* ------------------------------------------------------------------------
\* HybridRetriever.search on the hits the index returns for one query
\* ------------------------------------------------------------------------
\* Records of one division, all active: two documents share the filename.
FusionPool ==
    {[document_id |-> "d1", filename |-> "f1", chunk_index |-> 0,
      chunk_text |-> ChunkText("f1", 0, 1), division_id |-> "A", is_active |-> TRUE],
     [document_id |-> "d1", filename |-> "f1", chunk_index |-> 1,
      chunk_text |-> ChunkText("f1", 1, 1), division_id |-> "A", is_active |-> TRUE],
     [document_id |-> "d2", filename |-> "f1", chunk_index |-> 0,
      chunk_text |-> ChunkText("f1", 0, 2), division_id |-> "A", is_active |-> TRUE],
     [document_id |-> "d3", filename |-> "f2", chunk_index |-> 0,
      chunk_text |-> ChunkText("f2", 0, 3), division_id |-> "A", is_active |-> TRUE]}

\* A ranked list of distinct records; the score falls along the list.
RankedLists ==
    {l \in UNION {[1..n -> FusionPool] : n \in 0..MaxHits} :
        \A i, j \in DOMAIN l : i # j => l[i] # l[j]}

HitsOf(l) == [i \in DOMAIN l |-> Hit(l[i], MaxHits + 1 - i)]

InitFusion ==
    /\ documents = [d \in Docs |->
                      [division_id |-> "A", original_filename |-> "f1",
                       is_active |-> TRUE, status |-> "uploaded"]]
    /\ index = {}
    /\ run = IdleRun
    /\ nreq = 0
    /\ pending = [d \in Docs |-> <<>>]
    /\ lastStore = [d \in Docs |-> 0]
    /\ result_threshold \in Thresholds
    /\ \E vl \in RankedLists, bl \in RankedLists, k \in 1..MaxTopK :
          fusion = [IdleFusion EXCEPT !.vector_hits = HitsOf(vl),
                                      !.bm25_hits = HitsOf(bl),
                                      !.top_k = k]
    /\ pdf = IdlePdf
    /\ deletion = IdleDeletion
    /\ chat = IdleChat
    /\ chunker = IdleChunker

\* vector_task: HybridRetriever._vector_search.  The index answers, or the
\* call raises: the except clauses of the branch (and the isinstance test
\* after asyncio.gather) leave the empty list.
FusionVectorSearch(ok) ==
    /\ fusion.top_k > 0
    /\ ~fusion.vector_done
    /\ fusion' = [fusion EXCEPT !.vector_done = TRUE,
                                !.vector_failed = ~ok,
                                !.vector_results = IF ok
                                    THEN ToSimilarChunks(fusion.vector_hits)
                                    ELSE <<>>]
    /\ UNCHANGED <<ingestVars, result_threshold, chat, chunker, pdf, deletion>>

\* bm25_task: HybridRetriever._opensearch_search, with the same outcomes.
FusionBm25Search(ok) ==
    /\ fusion.top_k > 0
    /\ ~fusion.bm25_done
    /\ fusion' = [fusion EXCEPT !.bm25_done = TRUE,
                                !.bm25_failed = ~ok,
                                !.bm25_results = IF ok THEN fusion.bm25_hits
                                                 ELSE <<>>]
    /\ UNCHANGED <<ingestVars, result_threshold, chat, chunker, pdf, deletion>>

\* A search that gives up when a branch has failed.
FusionCombine_AbortOnFault ==
    /\ fusion.vector_done /\ fusion.bm25_done /\ ~fusion.combined
    /\ fusion' = [fusion EXCEPT !.combined = TRUE,
                                !.result = IF fusion.vector_failed \/ fusion.bm25_failed
                                           THEN <<>>
                                           ELSE _combine_results(fusion.vector_results,
                                                                 fusion.bm25_results,
                                                                 fusion.top_k,
                                                                 result_threshold)]
    /\ UNCHANGED <<ingestVars, result_threshold, chat, chunker, pdf, deletion>>

\* After asyncio.gather: hybrid_results = self._combine_results(...)
FusionCombine ==
    /\ fusion.vector_done /\ fusion.bm25_done /\ ~fusion.combined
    /\ fusion' = [fusion EXCEPT !.combined = TRUE,
                                !.result = _combine_results(fusion.vector_results,
                                                            fusion.bm25_results,
                                                            fusion.top_k,
                                                            result_threshold)]
    /\ UNCHANGED <<ingestVars, result_threshold, chat, chunker, pdf, deletion>>

NextFusion ==
    \/ \E ok \in BOOLEAN : FusionVectorSearch(ok)
    \/ \E ok \in BOOLEAN : FusionBm25Search(ok)
    \/ FusionCombine

SpecFusion == InitFusion /\ [][NextFusion]_vars

\* ------------------------------------------------------------------------
\* Specification
\* ------------------------------------------------------------------------
Next ==
    \/ \E d \in Docs, file \in FileContents, ok \in BOOLEAN : parse_document(d, file, ok)
    \/ \E ok \in BOOLEAN : RunUpdateStatus(ok)
    \/ RunNotify(TRUE)
    \/ RunParse
    \/ \E ok \in BOOLEAN : RunEmbed(ok)
    \/ \E ok \in BOOLEAN : RunStore(ok)
    \/ RunUnexpectedError
    \/ \E d \in Docs, v \in BOOLEAN : SetDocumentActive(d, v)
    \/ \E d \in Docs, ok \in BOOLEAN : update_document_active_status(d, ok)

Spec == Init /\ [][Next]_vars

\* The same runs with a metadata store that commits every status update.
\* The run ignores the result of update_document_status, so the contents
\* the index can reach are those of Spec.
NextIndex ==
    \/ \E d \in Docs, file \in FileContents : parse_document(d, file, TRUE)
    \/ RunUpdateStatus(TRUE)
    \/ RunNotify(TRUE)
    \/ RunParse
    \/ \E ok \in BOOLEAN : RunEmbed(ok)
    \/ \E ok \in BOOLEAN : RunStore(ok)
    \/ RunUnexpectedError
    \/ \E d \in Docs, v \in BOOLEAN : SetDocumentActive(d, v)
    \/ \E d \in Docs, ok \in BOOLEAN : update_document_active_status(d, ok)

SpecIndex == Init /\ [][NextIndex]_vars

\* The parse requests and their runs alone, with every outcome of the
\* metadata store and of the notification endpoint.  Spec and SpecIndex
\* have every notification delivered: the run does not read the outcome.
RunStep ==
    \/ \E ok \in BOOLEAN : RunUpdateStatus(ok)
    \/ \E ok \in BOOLEAN : RunNotify(ok)
    \/ RunParse
    \/ \E ok \in BOOLEAN : RunEmbed(ok)
    \/ \E ok \in BOOLEAN : RunStore(ok)
    \/ RunUnexpectedError

NextRun ==
    \/ \E d \in Docs, file \in FileContents, ok \in BOOLEAN : parse_document(d, file, ok)
    \/ RunStep

SpecRun == Init /\ [][NextRun]_vars

\* Every external call of a started run returns: a step of the run that
\* can be taken is eventually taken.
SpecRunLive == Init /\ [][NextRun]_vars /\ WF_vars(RunStep)

\* ------------------------------------------------------------------------
\* Properties of the ingestion run
\* ------------------------------------------------------------------------
HappyPath == <<"parsing", "parsed", "embedding", "embedded">>

IsPrefix(a, b) == Len(a) <= Len(b) /\ SubSeq(b, 1, Len(a)) = a

FailureExitPcs == {"ntf_parsing_failed", "ntf_embedding_failed", "ntf_store_failed",
                   "ntf_processing_failed", "done"}

\* C1: the statuses one run has persisted for the document are a prefix of
\* parsing, parsed, embedding, embedded, followed by at most one failure
\* status; after a failure status is persisted the run persists no status
\* and runs no stage, it only sends the failure notification and returns.
C1_PersistedSequence ==
    run.http = 200 =>
        LET w == run.persisted
        IN  \/ IsPrefix(w, HappyPath)
            \/ /\ w # <<>>
               /\ w[Len(w)] \in FailureStatuses
               /\ IsPrefix(SubSeq(w, 1, Len(w) - 1), HappyPath)
               /\ run.pc \in FailureExitPcs

\* C2: whenever a status has been written for a document, on the handler's
\* failure paths included, the request ends with a notification sent right
\* after each status.
C2_StatusThenNotification ==
    Returned(run) =>
        \A i \in DOMAIN run.log :
            run.log[i].kind = "status" =>
                /\ i + 1 \in DOMAIN run.log
                /\ run.log[i + 1].kind = "notify"

\* C3: a file whose extracted text is empty is not a failure: the run
\* writes no failure status and sends no failure notification for it.
C3_EmptyTextIsNoFailure ==
    run.file.kind = "blank" /\ run.http = 200 =>
        /\ \A s \in SeqToSet(run.persisted) : s \notin FailureStatuses
        /\ \A i \in DOMAIN run.log :
              /\ run.log[i].kind = "status" => run.log[i].value \notin FailureStatuses
              /\ run.log[i].kind = "notify" => run.log[i].value # "failed"

\* C4: once the run and the calls for the active flag have ended, every
\* record of the index carries the division and the active flag of its
\* document's row.
C4_RecordsMatchDocument ==
    (~InProgress(run) /\ \A d \in Docs : pending[d] = <<>>) =>
        \A rec \in index :
            /\ rec.division_id = documents[rec.document_id].division_id
            /\ rec.is_active = documents[rec.document_id].is_active

\* C5: after the run of a document has stored its embeddings, the index
\* holds exactly one record per chunk of that run for the document, and
\* none of an earlier run.
C5_ReingestionSupersedes ==
    (run.pc \in {"upd_embedded", "ntf_embedded", "done"}
        /\ lastStore[run.document_id] = run.req) =>
        {[chunk_index |-> rec.chunk_index, chunk_text |-> rec.chunk_text] :
            rec \in {r \in index : r.document_id = run.document_id}}
        = {[chunk_index |-> c.index, chunk_text |-> c.text] :
            c \in SeqToSet(run.chunks.list)}

\* ------------------------------------------------------------------------
\* Properties of retrieval over the index
\* ------------------------------------------------------------------------
\* The records of the index a returned chunk was built from.
SourceRecords(idx, r) ==
    {rec \in idx : /\ rec.chunk_text = r.chunk_text
                   /\ rec.chunk_index = r.chunk_index
                   /\ rec.filename = r.filename}

\* What the two retrieval paths return for a request.
RetrievalResults(idx, q, division_id, top_k, threshold) ==
    [hybrid |-> HybridSearch(idx, q, division_id, top_k, threshold),
     fallback |-> _retrieve_similar_chunks_fallback(idx, q, division_id, top_k)]

RetrievedChunks(idx, q, division_id, top_k, threshold) ==
    LET res == RetrievalResults(idx, q, division_id, top_k, threshold)
    IN  SeqToSet(res.hybrid) \cup SeqToSet(res.fallback)

\* The answers to every request, as one value.
AllResults(idx) ==
    [q \in Queries, division_id \in Divisions, top_k \in 1..MaxTopK,
     threshold \in Thresholds |->
        RetrievalResults(idx, q, division_id, top_k, threshold)]

\* C6: whatever the ingestions have put in the index, a retrieval for a
\* division, hybrid or vector-only, returns only chunks whose source record
\* belongs to that division.
C6_TenantIsolation ==
    \A q \in Queries, division_id \in Divisions, top_k \in 1..MaxTopK,
       threshold \in Thresholds :
        \A r \in RetrievedChunks(index, q, division_id, top_k, threshold) :
            /\ SourceRecords(index, r) # {}
            /\ \A rec \in SourceRecords(index, r) : rec.division_id = division_id

\* The index holds active records of both divisions, the one of division B
\* is nearer to q1 than the one of A, and a retrieval for A returns chunks.
C6_Witness ==
    /\ \E ra, rb \in index :
          /\ ra.division_id = "A" /\ ra.is_active
          /\ rb.division_id = "B" /\ rb.is_active
          /\ VectorScore("q1", rb) > VectorScore("q1", ra)
    /\ HybridSearch(index, "q1", "A", MaxTopK, 0) # <<>>
    /\ _retrieve_similar_chunks_fallback(index, "q1", "A", MaxTopK) # <<>>

\* A successful PATCH of the active flag of document d to value v.
FlagUpdateStep(d, v) ==
    /\ pending[d] # <<>>
    /\ Head(pending[d]) = v
    /\ pending'[d] = Tail(pending[d])

WithoutFlag(idx) == {[rec EXCEPT !.is_active = FALSE] : rec \in idx}

RecordsOf(idx, d) == {rec \in idx : rec.document_id = d}

FusionMap == ChunkMap(fusion.vector_results, fusion.bm25_results)

FusionScore(j) == HybridScore(FusionMap[j], fusion.vector_results, fusion.bm25_results)

SameRecord(a, b) == a.document_id = b.document_id /\ a.chunk_index = b.chunk_index

SameChunk(a, b) ==
    /\ a.chunk_text = b.chunk_text
    /\ a.chunk_index = b.chunk_index
    /\ a.filename = b.filename

\* C8: a chunk at rank rv of the dense list and at rank rl of the lexical
\* list has the same key in both branches and is fused into one entry of
\* the chunk map, scored vector_weight * (1/rv) + bm25_weight * (1/rl).
C8_OneEntryForBothBranches ==
    (fusion.vector_done /\ fusion.bm25_done
        /\ ~fusion.vector_failed /\ ~fusion.bm25_failed) =>
        \A rv \in DOMAIN fusion.vector_hits, rl \in DOMAIN fusion.bm25_hits :
            SameRecord(fusion.vector_hits[rv], fusion.bm25_hits[rl]) =>
                /\ _get_chunk_id(fusion.vector_results[rv])
                      = _get_opensearch_chunk_id(fusion.bm25_results[rl])
                /\ \E j \in DOMAIN FusionMap :
                      /\ FusionMap[j].vector_rank = rv
                      /\ FusionMap[j].bm25_rank = rl
                      /\ FusionScore(j) = VectorWeight * (RankScale \div rv)
                                          + Bm25Weight * (RankScale \div rl)

\* C9: the chunk at rank 1 of the dense list that the lexical list does not
\* hold is a candidate with score vector_weight * 1 and, when that score is
\* not below the threshold, is returned with distance 1/(1+vector_weight);
\* every returned result is a chunk of one of the two lists.
C9_DenseOnlyRankOne ==
    fusion.combined =>
        /\ (/\ fusion.vector_hits # <<>>
            /\ ~fusion.vector_failed
            /\ \A rl \in DOMAIN fusion.bm25_results :
                  ~SameRecord(fusion.vector_hits[1], fusion.bm25_results[rl])) =>
              /\ \E j \in DOMAIN FusionMap :
                    /\ SameChunk(FusionMap[j].chunk, fusion.vector_hits[1])
                    /\ FusionScore(j) = VectorWeight * RankScale
              /\ VectorWeight * RankScale >= result_threshold =>
                    \E i \in DOMAIN fusion.result :
                        /\ SameChunk(fusion.result[i], fusion.vector_hits[1])
                        /\ fusion.result[i].distance
                              = Distance(ScoreScale, ScoreScale + VectorWeight * RankScale)
        /\ \A i \in DOMAIN fusion.result :
              \/ \E h \in SeqToSet(fusion.vector_results) :
                    SameChunk(fusion.result[i], h)
              \/ \E h \in SeqToSet(fusion.bm25_results) :
                    SameChunk(fusion.result[i], h)

\* The candidates whose score is not below the threshold.
AboveThreshold == {j \in DOMAIN FusionMap : FusionScore(j) >= result_threshold}

\* The fused score a result carries in its distance.
ResultScore(r) == r.distance.den - ScoreScale

Min(a, b) == IF a < b THEN a ELSE b

\* C10: the result of the hybrid search has at most top_k entries, each an
\* above-threshold candidate taken once; it is as long as top_k and the
\* number of above-threshold candidates allow, and no candidate left out
\* scores higher than a returned one.
C10_TopKAboveThreshold ==
    fusion.combined =>
        LET res == fusion.result
        IN  /\ Len(res) <= fusion.top_k
            /\ Len(res) = Min(fusion.top_k, Cardinality(AboveThreshold))
            /\ \A i \in DOMAIN res : /\ res[i].distance.num = ScoreScale
                                     /\ ResultScore(res[i]) >= result_threshold
            /\ \E f \in [DOMAIN res -> AboveThreshold] :
                  /\ \A a, b \in DOMAIN res : a # b => f[a] # f[b]
                  /\ \A i \in DOMAIN res :
                        /\ SameChunk(res[i], FusionMap[f[i]].chunk)
                        /\ ResultScore(res[i]) = FusionScore(f[i])
                  /\ \A j \in AboveThreshold \ {f[i] : i \in DOMAIN res} :
                        \A i \in DOMAIN res : FusionScore(j) <= ResultScore(res[i])

\* A call where the threshold drops a candidate and top_k cuts the rest.
C10_Witness ==
    /\ fusion.combined
    /\ result_threshold > 0
    /\ \E j \in DOMAIN FusionMap : j \notin AboveThreshold
    /\ Cardinality(AboveThreshold) > fusion.top_k
    /\ Len(fusion.result) = fusion.top_k

\* a <= b for two distances held as fractions.
DistanceLeq(a, b) == a.num * b.den <= b.num * a.den

\* The positions of the result that hold candidate j of the chunk map.
ResultPositions(j) ==
    {i \in DOMAIN fusion.result :
        /\ SameChunk(fusion.result[i], FusionMap[j].chunk)
        /\ ResultScore(fusion.result[i]) = FusionScore(j)}

\* C11: of two returned candidates the one with the higher fused score
\* comes first, and the distances 1/(1+fused) do not decrease along the
\* result list.
C11_OrderedByScore ==
    fusion.combined =>
        /\ \A a, b \in DOMAIN FusionMap :
              FusionScore(a) > FusionScore(b) =>
                  \A i \in ResultPositions(a), j \in ResultPositions(b) : i < j
        /\ \A i, j \in DOMAIN fusion.result :
              i < j => /\ ResultScore(fusion.result[i]) >= ResultScore(fusion.result[j])
                       /\ DistanceLeq(fusion.result[i].distance, fusion.result[j].distance)

\* A result where a candidate added later to the chunk map is returned
\* ahead of an earlier one: the sort has changed the order.
C11_Witness ==
    /\ fusion.combined
    /\ \E a, b \in DOMAIN FusionMap :
          /\ a < b
          /\ FusionScore(b) > FusionScore(a)
          /\ \E i \in ResultPositions(b), j \in ResultPositions(a) : i < j

\* C12: when exactly one branch has failed the search ends with the fusion
\* of the other branch's results and the empty list: the other branch has
\* run, its candidates that pass the threshold are returned, and for a
\* failed dense branch the result is the lexical hits in rank order, scored
\* bm25_weight * (1/rank).
C12_BranchFaultIsolation ==
    (fusion.combined /\ fusion.vector_failed # fusion.bm25_failed) =>
        /\ fusion.vector_done /\ fusion.bm25_done
        /\ AboveThreshold # {} => fusion.result # <<>>
        /\ fusion.vector_failed =>
              /\ fusion.bm25_results = fusion.bm25_hits
              /\ fusion.result = _combine_results(<<>>, fusion.bm25_hits,
                                                  fusion.top_k, result_threshold)
              /\ Len(fusion.result)
                    = Min(fusion.top_k,
                          Cardinality({r \in DOMAIN fusion.bm25_hits :
                              Bm25Weight * (RankScale \div r) >= result_threshold}))
              /\ \A i \in DOMAIN fusion.result :
                    /\ SameChunk(fusion.result[i], fusion.bm25_hits[i])
                    /\ ResultScore(fusion.result[i]) = Bm25Weight * (RankScale \div i)
        /\ fusion.bm25_failed =>
              /\ fusion.vector_results = ToSimilarChunks(fusion.vector_hits)
              /\ fusion.result = _combine_results(ToSimilarChunks(fusion.vector_hits),
                                                  <<>>, fusion.top_k, result_threshold)

\* The dense branch has failed on a query it had hits for, and the search
\* returns lexical hits.
C12_Witness ==
    /\ fusion.combined
    /\ fusion.vector_failed /\ ~fusion.bm25_failed
    /\ fusion.vector_hits # <<>>
    /\ fusion.result # <<>>

\* ------------------------------------------------------------------------
\* Text as a sequence of one-character strings
\* ------------------------------------------------------------------------
\* The characters str.strip() removes.
IsSpace(c) == c \in {" ", "\n"}

RECURSIVE LStrip(_)
LStrip(s) == IF s # <<>> /\ IsSpace(Head(s)) THEN LStrip(Tail(s)) ELSE s

RECURSIVE RStrip(_)
RStrip(s) ==
    IF s # <<>> /\ IsSpace(s[Len(s)]) THEN RStrip(SubSeq(s, 1, Len(s) - 1)) ELSE s

\* str.strip()
Strip(s) == RStrip(LStrip(s))

\* ------------------------------------------------------------------------
\* POST /chat: main.chat and RAGService.process_chat_query
\* ------------------------------------------------------------------------
\* The errors one call of HybridRetriever.search can meet: in the dense
\* branch, in the lexical branch, in the body of search or of
\* _combine_results.
SearchFaults == [vector : BOOLEAN, bm25 : BOOLEAN, fusing : BOOLEAN]

\* HybridRetriever.search with these errors: whether the call raises to
\* its caller, and the list it returns.  Each branch returns [] on its own
\* error; _combine_results and search return [] from their except clauses.
hybrid_retriever_search(idx, q, division_id, top_k, threshold, faults) ==
    LET vector_results == IF faults.vector THEN <<>>
                          ELSE _vector_search(idx, q, division_id, RetrievalCount(top_k))
        bm25_results == IF faults.bm25 THEN <<>>
                        ELSE _opensearch_search(idx, q, division_id, RetrievalCount(top_k))
    IN  [raised |-> FALSE,
         value |-> IF faults.fusing THEN <<>>
                   ELSE _combine_results(vector_results, bm25_results, top_k, threshold)]

\* RAGService._retrieve_similar_chunks_hybrid: the calls it makes and the
\* list it returns.  The vector-only search runs in the except clause.
_retrieve_similar_chunks_hybrid(idx, q, division_id, top_k, threshold, faults) ==
    LET r == hybrid_retriever_search(idx, q, division_id, top_k, threshold, faults)
    IN  IF r.raised
        THEN [calls |-> <<"hybrid", "fallback">>,
              value |-> IF faults.vector THEN <<>>
                        ELSE _retrieve_similar_chunks_fallback(idx, q, division_id, top_k)]
        ELSE [calls |-> <<"hybrid">>, value |-> r.value]

\* The system message of _generate_answer.
SystemInstruction == "answer from the provided context, in bahasa Indonesia"

\* DatabaseManager.get_documents_by_division: the active documents of the
\* division, ordered by filename (d1 holds the lesser filename).
get_documents_by_division(docs, division_id) ==
    LET rows == {d \in Docs : /\ docs[d].division_id = division_id
                              /\ docs[d].is_active}
    IN  (IF "d1" \in rows THEN <<docs["d1"].original_filename>> ELSE <<>>)
        \o (IF "d2" \in rows THEN <<docs["d2"].original_filename>> ELSE <<>>)

\* RAGService._construct_prompt: the sections of the prompt.  The context
\* section is the join of one part per chunk, numbered from 1.
_construct_prompt(query, similar_chunks, history_messages, available_documents) ==
    [history |-> history_messages,
     available_docs |-> available_documents,
     context |-> [i \in DOMAIN similar_chunks |->
                    [n |-> i, filename |-> similar_chunks[i].filename,
                     chunk_text |-> similar_chunks[i].chunk_text]],
     question |-> query]

\* What the completion holds: an answer, or white space only.
LlmContents == {<<"o", "k">>, <<" ", "\n">>}

ChatResult(query, answer, sources, division_id) ==
    [is_none |-> FALSE, query |-> query, answer |-> answer, sources |-> sources,
     division_id |-> division_id, conversation_id |-> None]

\* The records the index holds when the request arrives: none, the two
\* chunks of d1 (division A), or these and the chunk of d2 (division B).
ChatRecord(d, division_id, filename, i) ==
    [document_id |-> d, filename |-> filename, chunk_index |-> i,
     chunk_text |-> ChunkText(filename, i, 1), division_id |-> division_id,
     is_active |-> TRUE]

ChatIndexes ==
    {{},
     {ChatRecord("d1", "A", "f1", 0), ChatRecord("d1", "A", "f1", 1)},
     {ChatRecord("d1", "A", "f1", 0), ChatRecord("d1", "A", "f1", 1),
      ChatRecord("d2", "B", "f2", 0)}}

\* A request has been received by main.chat.
InitChat ==
    /\ documents \in {t \in [Docs -> DocRows] :
                        /\ t["d1"].division_id = "A"
                        /\ t["d1"].original_filename = "f1"
                        /\ t["d2"].division_id = "B"
                        /\ t["d2"].original_filename = "f2"
                        /\ t["d2"].is_active}
    /\ index \in ChatIndexes
    /\ run = IdleRun
    /\ nreq = 0
    /\ pending = [d \in Docs |-> <<>>]
    /\ lastStore = [d \in Docs |-> 0]
    /\ result_threshold \in Thresholds
    /\ fusion = IdleFusion
    /\ pdf = IdlePdf
    /\ deletion = IdleDeletion
    /\ chunker = IdleChunker
    /\ \E q \in Queries, dv \in Divisions, cid \in BOOLEAN, key \in BOOLEAN,
          client \in BOOLEAN :
          chat = [IdleChat EXCEPT !.pc = "embed", !.query = q, !.division_id = dv,
                                  !.conversation_id = cid,
                                  !.internal_api_key = key,
                                  !.openai_client = client]

\* return None from process_chat_query
ChatAbort(c) == [c EXCEPT !.result = NoResult, !.pc = "respond"]

\* A request that goes on to retrieval whatever the embedding step gave.
ChatEmbed_ContinueOnFailure(ok) ==
    /\ chat.pc = "embed"
    /\ chat' = [chat EXCEPT !.calls = Append(@, "embed"),
                            !.embedding = IF ok THEN "ok" ELSE "failed",
                            !.pc = "retrieve"]
    /\ UNCHANGED <<ingestVars, result_threshold, fusion, chunker, pdf, deletion>>

\* Steps 1 and 2: clean the query, generate_query_embedding; None (the
\* embedder's answer to any error) ends the query.
ChatEmbed(ok) ==
    /\ chat.pc = "embed"
    /\ chat' = IF ok
               THEN [chat EXCEPT !.calls = Append(@, "embed"), !.embedding = "ok",
                                 !.pc = "retrieve"]
               ELSE ChatAbort([chat EXCEPT !.calls = Append(@, "embed"),
                                           !.embedding = "failed"])
    /\ UNCHANGED <<ingestVars, result_threshold, fusion, chunker, pdf, deletion>>

\* Step 3: _retrieve_similar_chunks_hybrid.
ChatRetrieve(faults) ==
    /\ chat.pc = "retrieve"
    /\ LET r == _retrieve_similar_chunks_hybrid(index, chat.query, chat.division_id,
                                                MaxTopK, result_threshold, faults)
       IN  chat' = [chat EXCEPT !.faults = faults,
                                !.similar_chunks = r.value,
                                !.calls = @ \o r.calls,
                                !.pc = IF chat.internal_api_key /\ chat.conversation_id
                                       THEN "history" ELSE "generate"]
    /\ UNCHANGED <<ingestVars, result_threshold, fusion, chunker, pdf, deletion>>

\* Step 3.5: GET the conversation history; a failure leaves it empty.
ChatHistory(ok) ==
    /\ chat.pc = "history"
    /\ chat' = [chat EXCEPT !.calls = Append(@, "history"),
                            !.history_messages = IF ok THEN <<"earlier turn">> ELSE <<>>,
                            !.pc = "generate"]
    /\ UNCHANGED <<ingestVars, result_threshold, fusion, chunker, pdf, deletion>>

\* The position after an answer: title generation for a new conversation,
\* the ingest POST, or the return when no internal API key is configured.
AfterAnswer(c) ==
    IF c.internal_api_key /\ ~c.conversation_id THEN "title"
    ELSE IF c.internal_api_key THEN "ingest"
    ELSE "respond"

\* _generate_answer: None without a client; else the completion call on
\* the system message and the prompt, and the stripped content, or None
\* when the call raises.
_generate_answer(c, docs, content, ok) ==
    IF ~c.openai_client THEN [request |-> NoRequest, answer |-> NoAnswer]
    ELSE [request |-> [called |-> TRUE, system |-> SystemInstruction,
                       user |-> _construct_prompt(c.query, c.similar_chunks,
                                    c.history_messages,
                                    get_documents_by_division(docs, c.division_id))],
          answer |-> IF ok THEN SomeAnswer(Strip(content)) ELSE NoAnswer]

\* "not answer": None or the empty string.
NotAnswer(a) == a.is_none \/ a.text = <<>>

\* An orchestrator that gives up when retrieval returned nothing.
ChatGenerate_AbortOnEmpty(content, ok) ==
    /\ chat.pc = "generate"
    /\ LET g == _generate_answer(chat, documents, content, ok)
           c == [chat EXCEPT !.calls = IF g.request.called /\ chat.similar_chunks # <<>>
                                       THEN Append(@, "llm") ELSE @,
                             !.llm_request = IF chat.similar_chunks # <<>>
                                             THEN g.request ELSE NoRequest,
                             !.answer = g.answer,
                             !.generation = IF NotAnswer(g.answer) THEN "failed"
                                            ELSE "ok"]
       IN  chat' = IF NotAnswer(g.answer) \/ chat.similar_chunks = <<>>
                   THEN ChatAbort(c)
                   ELSE [c EXCEPT !.result = ChatResult(c.query, g.answer.text,
                                                c.similar_chunks, c.division_id),
                                  !.pc = AfterAnswer(c)]
    /\ UNCHANGED <<ingestVars, result_threshold, fusion, chunker, pdf, deletion>>

\* Steps 4 and 5: _generate_answer; "if not answer: return None"; else the
\* ChatResult with the retrieved chunks as sources.
ChatGenerate(content, ok) ==
    /\ chat.pc = "generate"
    /\ LET g == _generate_answer(chat, documents, content, ok)
           c == [chat EXCEPT !.calls = IF g.request.called THEN Append(@, "llm") ELSE @,
                             !.llm_request = g.request,
                             !.answer = g.answer,
                             !.generation = IF NotAnswer(g.answer) THEN "failed"
                                            ELSE "ok"]
       IN  chat' = IF NotAnswer(g.answer)
                   THEN ChatAbort(c)
                   ELSE [c EXCEPT !.result = ChatResult(c.query, g.answer.text,
                                                c.similar_chunks, c.division_id),
                                  !.pc = AfterAnswer(c)]
    /\ UNCHANGED <<ingestVars, result_threshold, fusion, chunker, pdf, deletion>>

\* Step 6: _generate_title; a failure is logged.
ChatTitle(ok) ==
    /\ chat.pc = "title"
    /\ chat' = [chat EXCEPT !.calls = Append(@, "title"), !.pc = "ingest"]
    /\ UNCHANGED <<ingestVars, result_threshold, fusion, chunker, pdf, deletion>>

\* Step 7: POST /api/v1/conversations/ingest with the user turn and the
\* assistant turn; a 2xx answer carries the conversation id, any other
\* outcome is logged.
ChatIngest(ok) ==
    /\ chat.pc = "ingest"
    /\ chat' = [chat EXCEPT !.calls = Append(@, "ingest"),
                            !.result = IF ok THEN [@ EXCEPT !.conversation_id = "c1"]
                                       ELSE @,
                            !.pc = "respond"]
    /\ UNCHANGED <<ingestVars, result_threshold, fusion, chunker, pdf, deletion>>

\* main.chat after process_chat_query: HTTP 500 when it returned None,
\* else the ChatResponse.
ChatRespond ==
    /\ chat.pc = "respond"
    /\ chat' = [chat EXCEPT
                  !.http = IF chat.result.is_none
                           THEN [status |-> 500, answer |-> <<>>, total_sources |-> 0]
                           ELSE [status |-> 200, answer |-> chat.result.answer,
                                 total_sources |-> Len(chat.result.sources)],
                  !.pc = "done"]
    /\ UNCHANGED <<ingestVars, result_threshold, fusion, chunker, pdf, deletion>>

NextChat ==
    \/ \E ok \in BOOLEAN : ChatEmbed(ok)
    \/ \E faults \in SearchFaults : ChatRetrieve(faults)
    \/ \E ok \in BOOLEAN : ChatHistory(ok)
    \/ \E content \in LlmContents, ok \in BOOLEAN : ChatGenerate(content, ok)
    \/ \E ok \in BOOLEAN : ChatTitle(ok)
    \/ \E ok \in BOOLEAN : ChatIngest(ok)
    \/ ChatRespond

SpecChat == InitChat /\ [][NextChat]_vars

\* ------------------------------------------------------------------------
\* DocumentParser._chunk_text
\* ------------------------------------------------------------------------
\* settings.chunk_size and settings.chunk_overlap as configured by default.
DefaultChunkSize == 512
DefaultChunkOverlap == 50

\* A slice bound as Python reads it: a negative bound counts from the end,
\* and the bound is clipped to the text.
SliceBound(i, len) ==
    IF i < 0 THEN (IF i + len < 0 THEN 0 ELSE i + len)
    ELSE IF i > len THEN len ELSE i

\* text[start:end]
Slice(text, start, end) ==
    SubSeq(text, SliceBound(start, Len(text)) + 1, SliceBound(end, Len(text)))

\* text.rfind(c, start, end): the highest offset in [start, end) that holds
\* c, or -1.
RFind(text, c, start, end) ==
    LET found == {i \in SliceBound(start, Len(text))..(SliceBound(end, Len(text)) - 1) :
                    text[i + 1] = c}
    IN  IF found = {} THEN -1 ELSE CHOOSE i \in found : \A j \in found : j <= i

\* str(n) for n >= 0
Digit(d) == CASE d = 0 -> "0" [] d = 1 -> "1" [] d = 2 -> "2" [] d = 3 -> "3"
              [] d = 4 -> "4" [] d = 5 -> "5" [] d = 6 -> "6" [] d = 7 -> "7"
              [] d = 8 -> "8" [] d = 9 -> "9"

RECURSIVE Decimal(_)
Decimal(n) == IF n < 10 THEN <<Digit(n)>>
              ELSE Append(Decimal(n \div 10), Digit(n % 10))

\* f"{filename} - Chunk {chunk_index}: {chunk_text}"
PrefixedChunkText(filename, chunk_index, chunk_text) ==
    filename \o <<" ", "-", " ", "C", "h", "u", "n", "k", " ">>
             \o Decimal(chunk_index) \o <<":", " ">> \o chunk_text

DocumentChunk(text, chunk_index, start_char, end_char) ==
    [text |-> text, index |-> chunk_index, start_char |-> start_char,
     end_char |-> end_char]

\* The end of the chunk that starts at start: start + chunk_size, moved
\* back to the last space of the window when the text goes on after it.
ChunkEnd(text, start, chunk_size) ==
    LET end == start + chunk_size
    IN  IF end < Len(text)
        THEN LET last_space == RFind(text, " ", start, end)
             IN  IF last_space # -1 /\ last_space > start THEN last_space ELSE end
        ELSE Len(text)

\* A chunker that leaves one character out after every chunk.
NextStart_SkipAhead(end, chunk_overlap, chunks) == end + 1

\* A chunker that steps back by the overlap whatever the previous start.
NextStart_NoSnap(end, chunk_overlap, chunks) == end - chunk_overlap

\* start = end - chunk_overlap; if that is not after the start of the last
\* chunk (when there is one), start = end.
NextStart(end, chunk_overlap, chunks) ==
    LET start == end - chunk_overlap
        backwards == IF chunks # <<>> THEN start <= chunks[Len(chunks)].start_char
                     ELSE FALSE
    IN  IF backwards THEN end ELSE start

\* TextCleaner._normalize_text on the characters of the model: every run
\* of white space becomes one space, and the ends are stripped.
RECURSIVE CollapseRange(_, _, _)
CollapseRange(s, lo, hi) ==
    IF lo > hi THEN <<>>
    ELSE IF lo = hi
         THEN (IF ~IsSpace(s[lo]) THEN <<s[lo]>>
               ELSE IF lo > 1 /\ IsSpace(s[lo - 1]) THEN <<>>
               ELSE <<" ">>)
         ELSE LET mid == (lo + hi) \div 2
              IN  CollapseRange(s, lo, mid) \o CollapseRange(s, mid + 1, hi)

CollapseSpaces(s) == CollapseRange(s, 1, Len(s))

clean_document_text(text) ==
    IF Strip(text) = <<>> THEN <<>> ELSE Strip(CollapseSpaces(text))

\* The texts of the model: every text of at most MaxTextLen characters
\* over a letter, the space and the newline, and the texts of 1000
\* characters with spaces at some of the offsets 464 and 700.
SmallTexts == UNION {[1..n -> {"a", " ", "\n"}] : n \in 0..MaxTextLen}

ScenarioTexts ==
    {[i \in 1..1000 |-> IF (i - 1) \in S THEN " " ELSE "a"] : S \in SUBSET {464, 700}}

InitChunker ==
    /\ documents = [d \in Docs |->
                      [division_id |-> "A", original_filename |-> "f1",
                       is_active |-> TRUE, status |-> "uploaded"]]
    /\ index = {}
    /\ run = IdleRun
    /\ nreq = 0
    /\ pending = [d \in Docs |-> <<>>]
    /\ lastStore = [d \in Docs |-> 0]
    /\ result_threshold = 0
    /\ fusion = IdleFusion
    /\ pdf = IdlePdf
    /\ deletion = IdleDeletion
    /\ chat = IdleChat
    /\ \/ \E t \in SmallTexts, size \in 1..MaxChunkSize, overlap \in 0..MaxOverlap :
             chunker = [IdleChunker EXCEPT !.pc = "enter", !.input = t,
                                           !.filename = <<"f">>,
                                           !.chunk_size = size,
                                           !.chunk_overlap = overlap]
       \/ \E t \in ScenarioTexts :
             chunker = [IdleChunker EXCEPT !.pc = "enter", !.input = t,
                                           !.filename = <<"f">>,
                                           !.chunk_size = DefaultChunkSize,
                                           !.chunk_overlap = DefaultChunkOverlap]

\* Entry of _chunk_text: no chunk for a text that is empty once stripped;
\* else the text is stripped and the loop starts at offset 0.
ChunkEnter ==
    /\ chunker.pc = "enter"
    /\ chunker' = IF Strip(chunker.input) = <<>>
                  THEN [chunker EXCEPT !.pc = "done"]
                  ELSE [chunker EXCEPT !.text = Strip(chunker.input),
                                       !.start = 0, !.chunk_index = 0,
                                       !.pc = "loop"]
    /\ UNCHANGED <<ingestVars, result_threshold, fusion, chat, pdf, deletion>>

\* One evaluation of the loop condition and, when it holds, one iteration:
\* the chunk is appended when its prefixed text is non-empty; the loop
\* ends at the break (end >= len(text)) or when start has reached the end
\* of the text.
ChunkStep ==
    /\ chunker.pc = "loop"
    /\ IF chunker.start < Len(chunker.text)
       THEN LET end == ChunkEnd(chunker.text, chunker.start, chunker.chunk_size)
                chunk_text == PrefixedChunkText(chunker.filename, chunker.chunk_index,
                                  Strip(Slice(chunker.text, chunker.start, end)))
                emit == chunk_text # <<>>
                chunks == IF emit
                          THEN Append(chunker.chunks,
                                      DocumentChunk(chunk_text, chunker.chunk_index,
                                                    chunker.start, end))
                          ELSE chunker.chunks
            IN  chunker' = [chunker EXCEPT
                    !.chunks = chunks,
                    !.chunk_index = IF emit THEN @ + 1 ELSE @,
                    !.starts = Append(@, chunker.start),
                    !.ends = Append(@, end),
                    !.start = IF end >= Len(chunker.text) THEN @
                              ELSE NextStart(end, chunker.chunk_overlap, chunks),
                    !.pc = IF end >= Len(chunker.text) THEN "done" ELSE "loop"]
       ELSE chunker' = [chunker EXCEPT !.pc = "done"]
    /\ UNCHANGED <<ingestVars, result_threshold, fusion, chat, pdf, deletion>>

NextChunker ==
    \/ ChunkEnter
    \/ ChunkStep

SpecChunker == InitChunker /\ [][NextChunker]_vars

\* The loop is a sequential program: a step that can be taken is taken.
SpecChunkerLive == InitChunker /\ [][NextChunker]_vars /\ WF_vars(NextChunker)

\* ------------------------------------------------------------------------
\* Properties of the chat query
\* ------------------------------------------------------------------------
CallsMade == SeqToSet(chat.calls)

\* _retrieve_similar_chunks_hybrid has returned.
Retrieved == chat.pc \notin {"idle", "embed", "retrieve"} /\ "hybrid" \in CallsMade

\* No fused list could be computed: the fusion raised, or both searches did.
HybridPathFailed == chat.faults.fusing \/ (chat.faults.vector /\ chat.faults.bm25)

\* C13: when the hybrid search path has failed, the orchestrator has made
\* the vector-only search and holds its results before it goes on.
C13_FallbackOnHybridFailure ==
    (Retrieved /\ HybridPathFailed) =>
        /\ "fallback" \in CallsMade
        /\ chat.similar_chunks =
              IF chat.faults.vector THEN <<>>
              ELSE _retrieve_similar_chunks_fallback(index, chat.query,
                                                     chat.division_id, MaxTopK)

\* C14: when both searches of a chat query have raised, the query is
\* aborted: no ChatResult, no completion call, and HTTP 500 to the caller.
C14_RetrievalFailureAborts ==
    (Retrieved /\ chat.faults.vector /\ chat.faults.bm25) =>
        /\ "llm" \notin CallsMade
        /\ chat.result.is_none
        /\ chat.pc = "done" => chat.http.status = 500

\* C15: a query whose embedding step or answer generation failed makes no
\* ingest POST and is answered with an error; an ingest POST is made only
\* after an answer has been generated.
C15_NoTurnWithoutAnswer ==
    /\ (chat.embedding = "failed" \/ chat.generation = "failed") =>
          /\ "ingest" \notin CallsMade
          /\ chat.result.is_none
          /\ chat.pc = "done" => chat.http.status = 500
    /\ "ingest" \in CallsMade =>
          /\ chat.generation = "ok"
          /\ ~NotAnswer(chat.answer)
          /\ \E i, j \in DOMAIN chat.calls :
                i < j /\ chat.calls[i] = "llm" /\ chat.calls[j] = "ingest"

C15_Witness ==
    /\ chat.pc = "done"
    /\ chat.internal_api_key
    /\ chat.openai_client
    /\ chat.embedding = "ok"
    /\ chat.generation = "failed"
    /\ "llm" \in CallsMade
    /\ chat.http.status = 500

\* C16: when retrieval returned the empty list, the orchestrator goes on to
\* answer generation: the completion call is made on the fixed system
\* message and on a prompt with an empty context section, and the answer
\* of the completion is returned to the caller with zero sources.
C16_EmptyRetrievalStillAnswers ==
    (Retrieved /\ chat.similar_chunks = <<>> /\ chat.generation # "none") =>
        /\ chat.openai_client =>
              /\ "llm" \in CallsMade
              /\ chat.llm_request.called
              /\ chat.llm_request.system = SystemInstruction
              /\ chat.llm_request.user.context = <<>>
              /\ chat.llm_request.user.question = chat.query
        /\ chat.generation = "ok" =>
              /\ ~chat.result.is_none
              /\ chat.result.answer = chat.answer.text
              /\ chat.result.sources = <<>>
              /\ chat.pc = "done" =>
                    /\ chat.http.status = 200
                    /\ chat.http.answer = chat.answer.text
                    /\ chat.http.total_sources = 0

C16_Witness ==
    /\ chat.pc = "done"
    /\ chat.faults = NoFaults
    /\ index # {}
    /\ chat.similar_chunks = <<>>
    /\ "llm" \in CallsMade
    /\ chat.http.status = 200
    /\ chat.http.total_sources = 0

\* ------------------------------------------------------------------------
\* Properties of the chunker
\* ------------------------------------------------------------------------
\* text[start_char:end_char] of a chunk
SourceSpan(c) == Slice(chunker.text, c.start_char, c.end_char)

\* C17: with 0 < chunk_overlap < chunk_size, the i-th chunk emitted has
\* index i - 1, and the source span of every emitted chunk is non-empty
\* after trimming.
C17_ContiguousNonEmptyChunks ==
    (0 < chunker.chunk_overlap /\ chunker.chunk_overlap < chunker.chunk_size) =>
        \A i \in DOMAIN chunker.chunks :
            /\ chunker.chunks[i].index = i - 1
            /\ Strip(SourceSpan(chunker.chunks[i])) # <<>>

\* The start offsets of the iterations so far, and the one of the next.
LoopStarts ==
    IF chunker.pc = "loop" THEN Append(chunker.starts, chunker.start)
    ELSE chunker.starts

\* C18: for every text, chunk_size >= 1 and chunk_overlap >= 0, the start
\* offset of each iteration is strictly greater than the start of the
\* previous chunk, the loop goes on exactly while end is before the end of
\* the text, and the call returns.
C18_ChunkerTerminates ==
    /\ [](/\ \A i \in DOMAIN LoopStarts : i > 1 => LoopStarts[i] > LoopStarts[i - 1]
          /\ (chunker.pc = "loop" /\ chunker.chunks # <<>>) =>
                chunker.start > chunker.chunks[Len(chunker.chunks)].start_char
          /\ \A i \in DOMAIN chunker.ends :
                /\ chunker.ends[i] > chunker.starts[i]
                /\ (chunker.ends[i] >= Len(chunker.text)) <=>
                      (i = Len(chunker.ends) /\ chunker.pc = "done"))
    /\ <>(chunker.pc = "done")

C18_Witness ==
    /\ chunker.pc = "done"
    /\ chunker.chunk_overlap >= chunker.chunk_size
    /\ Len(chunker.starts) >= 3
    /\ chunker.ends[Len(chunker.ends)] = Len(chunker.text)

\* C19: the text of every chunk has at most chunk_size characters.
C19_ChunkTextWithinSize ==
    \A i \in DOMAIN chunker.chunks :
        Len(chunker.chunks[i].text) <= chunker.chunk_size

\* C20: a cleaned text of 1000 characters, chunked with chunk_size 512 and
\* chunk_overlap 50, gives 2 or 3 chunks.
C20_ScenarioChunkCount ==
    (/\ chunker.pc = "done"
     /\ Len(chunker.input) = 1000
     /\ clean_document_text(chunker.input) = chunker.input
     /\ chunker.chunk_size = DefaultChunkSize
     /\ chunker.chunk_overlap = DefaultChunkOverlap) =>
        Len(chunker.chunks) \in {2, 3}

\* C21: consecutive chunks overlap by at most chunk_overlap and leave no
\* gap; the first chunk starts at offset 0 and, once the call has
\* returned, the last chunk ends at the end of the stripped text, so every
\* offset of the stripped text is inside a chunk span.
C21_SpansCoverText ==
    /\ \A i \in DOMAIN chunker.chunks : i > 1 =>
          /\ chunker.chunks[i - 1].end_char - chunker.chunk_overlap
                <= chunker.chunks[i].start_char
          /\ chunker.chunks[i].start_char <= chunker.chunks[i - 1].end_char
    /\ chunker.chunks # <<>> => chunker.chunks[1].start_char = 0
    /\ (chunker.pc = "done" /\ chunker.text # <<>>) =>
          /\ chunker.chunks # <<>>
          /\ chunker.chunks[Len(chunker.chunks)].end_char = Len(chunker.text)
          /\ \A k \in 0..(Len(chunker.text) - 1) :
                \E i \in DOMAIN chunker.chunks :
                    /\ chunker.chunks[i].start_char <= k
                    /\ k < chunker.chunks[i].end_char

C21_Witness ==
    /\ chunker.pc = "done"
    /\ Len(chunker.chunks) >= 3
    /\ chunker.chunk_overlap > 0
    /\ \E i \in DOMAIN chunker.chunks :
          i > 1 /\ chunker.chunks[i].start_char < chunker.chunks[i - 1].end_char
    /\ \E i \in DOMAIN chunker.chunks :
          i > 1 /\ chunker.chunks[i].start_char = chunker.chunks[i - 1].end_char

\* ------------------------------------------------------------------------
\* Properties of the notifications of the run
\* ------------------------------------------------------------------------
\* C22: a notification step leaves the run at the same position, with the
\* same statuses persisted and the same records stored, whether or not the
\* notification was delivered: apart from the record of the delivery, the
\* state after the step is the one after a delivered notification.
C22_NotificationFailureIsIgnored ==
    [][run.pc \in NotifyPcs =>
          /\ run' = [run EXCEPT !.pc = AfterNotify(run.pc),
                                !.log = Append(@, NotificationAt(run.pc)),
                                !.delivered = run'.delivered]
          /\ run'.persisted = run.persisted
          /\ documents' = documents
          /\ index' = index
          /\ lastStore' = lastStore]_vars

C22_Witness ==
    /\ run.pc = "done"
    /\ \A i \in DOMAIN run.delivered : ~run.delivered[i]
    /\ run.persisted = HappyPath
    /\ \E rec \in index : rec.document_id = run.document_id

\* The statuses of the update_document_status calls the run has made.
RECURSIVE StatusesIn(_)
StatusesIn(log) ==
    IF log = <<>> THEN <<>>
    ELSE LET rest == StatusesIn(SubSeq(log, 1, Len(log) - 1))
             e == log[Len(log)]
         IN  IF e.kind = "status" THEN Append(rest, e.value) ELSE rest

\* C24: in a run whose status updates have all committed, every
\* notification carries the status that the update just before it has
\* persisted for the document.
C24_NotificationCarriesStatus ==
    (run.http = 200 /\ StatusesIn(run.log) = run.persisted) =>
        \A i \in DOMAIN run.log :
            run.log[i].kind = "notify" =>
                /\ i > 1
                /\ run.log[i - 1].kind = "status"
                /\ run.log[i].value = run.log[i - 1].value
                /\ run.log[i].value \in SeqToSet(run.persisted)
                /\ i = Len(run.log) =>
                      run.log[i].value = documents[run.document_id].status

\* C25: the run notifies a status, and goes on to the next stage, only
\* when the status has been persisted: the statuses of its update calls
\* are the persisted ones, except for a last update that failed, after
\* which the run has ended without a notification.
C25_NotifyOnlyPersisted ==
    run.http = 200 =>
        LET attempted == StatusesIn(run.log)
        IN  \/ attempted = run.persisted
            \/ /\ run.pc = "done"
               /\ run.log[Len(run.log)].kind = "status"
               /\ SubSeq(attempted, 1, Len(attempted) - 1) = run.persisted

TerminalStatuses == {"embedded", "parsing_failed", "embedding_failed",
                     "processing_failed"}

TerminalNotifications == {"embedded", "failed"}

\* C26: every started run reaches its end; when it has, the last status
\* it has written (the last update_document_status call it made) is a
\* terminal one and it has sent exactly one terminal notification.
C26_RunReachesTerminalStatus ==
    /\ [](InProgress(run) => <>(run.pc = "done"))
    /\ [](run.pc = "done" =>
            LET attempted == StatusesIn(run.log)
            IN  /\ attempted # <<>>
                /\ attempted[Len(attempted)] \in TerminalStatuses
                /\ Cardinality({i \in DOMAIN run.log :
                                  /\ run.log[i].kind = "notify"
                                  /\ run.log[i].value \in TerminalNotifications}) = 1)

C26_Witness ==
    /\ run.pc = "done"
    /\ run.req = 2
    /\ StatusesIn(run.log) = <<"parsing", "parsed", "embedding", "processing_failed">>
    /\ run.persisted = <<"parsing", "parsed", "embedding">>
    /\ \E i \in DOMAIN run.delivered : ~run.delivered[i]

(***************************************************************************)
(* DocumentParser._parse_pdf and the part of parse_document around it.     *)
(* A PDF file is a sequence of pages; a page holds at most one text block  *)
(* and at most one image block, the image above or below the text.  The    *)
(* file also fixes what fitz.open, the OCR of an image and pdfminer would  *)
(* answer: a text or an exception.                                         *)
(***************************************************************************)
MaxPages == 2

\* The spans of a text block, concatenated (parser.py 273-276), or Absent.
Absent == [present |-> FALSE, raises |-> FALSE, text |-> <<>>]
Block(text) == [present |-> TRUE, raises |-> FALSE, text |-> text]
OcrFailure == [present |-> TRUE, raises |-> TRUE, text |-> <<>>]

PdfTextBlocks == {Absent, Block(<<" ">>), Block(<<"a", " ">>)}
PdfImageBlocks == {Absent, Block(<<>>), Block(<<"b">>), OcrFailure}
PdfPages == {p \in [text : PdfTextBlocks, image : PdfImageBlocks, image_first : BOOLEAN] :
                p.image_first => (p.text.present /\ p.image.present)}
PdfminerOutcomes == {[raises |-> TRUE, text |-> <<>>],
                     [raises |-> FALSE, text |-> <<>>],
                     [raises |-> FALSE, text |-> <<"c">>]}
PdfFiles == [pages : UNION {[1..n -> PdfPages] : n \in 0..MaxPages},
             open_fails : BOOLEAN,
             pdfminer : PdfminerOutcomes]

\* The contents of a page's blocks in the order of their position: the text
\* block's content is stripped, an image block's content is its OCR text.
PageBlocks(page) ==
    LET t == IF page.text.present THEN <<Strip(page.text.text)>> ELSE <<>>
        i == IF page.image.present THEN <<page.image.text>> ELSE <<>>
    IN  IF page.image_first THEN i \o t ELSE t \o i

RECURSIVE JoinLines(_)
\* "\n".join(contents)
JoinLines(contents) ==
    IF contents = <<>> THEN <<>>
    ELSE IF Len(contents) = 1 THEN contents[1]
    ELSE contents[1] \o <<"\n">> \o JoinLines(Tail(contents))

\* "\n".join(b["content"] for b in blocks if b.get("content"))
PageText(page) == JoinLines(SelectSeq(PageBlocks(page), LAMBDA c : c # <<>>))

\* parse_document is called on a PDF file: _parse_pdf opens it with fitz; an
\* exception of fitz.open enters the except branch.
PdfOpen(file) ==
    /\ pdf.pc = "idle"
    /\ pdf' = [pdf EXCEPT !.pc = IF file.open_fails THEN "except" ELSE "page",
                          !.pages = file.pages,
                          !.open_fails = file.open_fails,
                          !.pdfminer = file.pdfminer,
                          !.calls = <<"fitz">>]
    /\ UNCHANGED <<ingestVars, result_threshold, fusion, chat, chunker, deletion>>

\* One iteration of the loop over the pages: the text block, the OCR of the
\* image block (an exception of it enters the except branch), the sort and
\* the join appended to text.
PdfPage ==
    /\ pdf.pc = "page"
    /\ pdf.page_num < Len(pdf.pages)
    /\ LET page == pdf.pages[pdf.page_num + 1]
           calls == IF page.image.present THEN Append(pdf.calls, "ocr") ELSE pdf.calls
       IN  IF page.image.raises
           THEN pdf' = [pdf EXCEPT !.pc = "except", !.calls = calls]
           ELSE pdf' = [pdf EXCEPT !.page_num = @ + 1,
                                   !.text = @ \o PageText(page),
                                   !.calls = calls]
    /\ UNCHANGED <<ingestVars, result_threshold, fusion, chat, chunker, deletion>>

\* The loop is over: return text.
PdfReturnText ==
    /\ pdf.pc = "page"
    /\ pdf.page_num = Len(pdf.pages)
    /\ pdf' = [pdf EXCEPT !.pc = "extracted", !.primary_completed = TRUE]
    /\ UNCHANGED <<ingestVars, result_threshold, fusion, chat, chunker, deletion>>

\* The except branch: pdfminer's text is returned, its exception is raised
\* again.
PdfFallback ==
    /\ pdf.pc = "except"
    /\ pdf' = [pdf EXCEPT !.pc = "extracted",
                          !.calls = Append(@, "pdfminer"),
                          !.text = IF pdf.pdfminer.raises THEN @ ELSE pdf.pdfminer.text,
                          !.raised = pdf.pdfminer.raises]
    /\ UNCHANGED <<ingestVars, result_threshold, fusion, chat, chunker, deletion>>

\* parse_document after _parse_pdf: None on an exception, [] when the text
\* is empty or blank, else the text goes on to cleaning and chunking.
PdfOutcome ==
    /\ pdf.pc = "extracted"
    /\ pdf' = [pdf EXCEPT !.pc = "done",
                          !.outcome = IF pdf.raised THEN "None"
                                      ELSE IF pdf.text = <<>> \/ Strip(pdf.text) = <<>>
                                           THEN "no_text"
                                           ELSE "clean_and_chunk"]
    /\ UNCHANGED <<ingestVars, result_threshold, fusion, chat, chunker, deletion>>

NextPdf ==
    \/ \E file \in PdfFiles : PdfOpen(file)
    \/ PdfPage
    \/ PdfReturnText
    \/ PdfFallback
    \/ PdfOutcome

SpecPdf == Init /\ [][NextPdf]_vars

\* C23: when the primary extraction of a PDF completes without an exception
\* and its text is empty or blank, pdfminer has been called before the
\* document is declared to hold no text.
C23_FallbackOnEmptyText ==
    (pdf.pc = "done" /\ pdf.primary_completed /\ Strip(pdf.text) = <<>>)
        => \E i \in 1..Len(pdf.calls) : pdf.calls[i] = "pdfminer"

\* ------------------------------------------------------------------------
\* Properties of the fusion key
\* ------------------------------------------------------------------------
\* C27: the list the hybrid search returns never holds two entries for the
\* same chunk (same document and chunk index), also when both branches
\* returned the chunk.
C27_NoDuplicateChunk ==
    fusion.combined =>
        \A i, j \in DOMAIN fusion.result :
            i # j => ~SameChunk(fusion.result[i], fusion.result[j])

\* C28: two chunks of the dense list that belong to different documents
\* with the same filename and have the same chunk index stay two candidates
\* of the chunk map, each with its own dense rank.
C28_SameFilenameStaysApart ==
    (fusion.vector_done /\ ~fusion.vector_failed) =>
        \A a, b \in DOMAIN fusion.vector_hits :
            (/\ a # b
             /\ fusion.vector_hits[a].document_id # fusion.vector_hits[b].document_id
             /\ fusion.vector_hits[a].filename = fusion.vector_hits[b].filename
             /\ fusion.vector_hits[a].chunk_index = fusion.vector_hits[b].chunk_index) =>
                \E ja, jb \in DOMAIN FusionMap :
                    /\ ja # jb
                    /\ FusionMap[ja].vector_rank = a
                    /\ SameChunk(FusionMap[ja].chunk, fusion.vector_hits[a])
                    /\ FusionMap[jb].vector_rank = b
                    /\ SameChunk(FusionMap[jb].chunk, fusion.vector_hits[b])

(***************************************************************************)
(* The delete-by-document requests: DELETE /delete-document/{id} of        *)
(* main.py and DELETE /vector/document/{id} of vector_routes.py, both      *)
(* through DatabaseManager.delete_document_embeddings.  A request is       *)
(* handled in one step; it may arrive while a run is in progress.          *)
(***************************************************************************)
\* client.delete_by_query with the term query on document_id.
delete_by_query(idx, document_id) == {rec \in idx : rec.document_id # document_id}

\* The value OpenSearchService.delete_document returns, which
\* delete_document_embeddings hands on: False after the call completed
\* (line 252) and False in the except clause (line 255).
delete_document_embeddings(completed) == IF completed THEN FALSE ELSE FALSE

\* The request in the record of the answered requests; during is the
\* request number of the run of the same document in progress, if any.
Deletion(route, d, completed, http) ==
    [route |-> route, document_id |-> d, completed |-> completed, http |-> http,
     during |-> IF InProgress(run) /\ run.document_id = d THEN run.req ELSE 0]

\* DELETE /delete-document/{document_id}: the returned value is not read,
\* the answer is the success response; the except clause is not entered
\* since the service catches the error of the index.
delete_document(d, completed) ==
    /\ index' = IF completed THEN delete_by_query(index, d) ELSE index
    /\ deletion' = Deletion("delete-document", d, completed, 200)
    /\ UNCHANGED <<documents, run, nreq, pending, lastStore, result_threshold,
                   fusion, chat, chunker, pdf>>

\* DELETE /vector/document/{document_id}: success when the returned value
\* is true, else HTTPException 500.
delete_document_vectors(d, completed) ==
    /\ index' = IF completed THEN delete_by_query(index, d) ELSE index
    /\ deletion' = Deletion("vector/document", d, completed,
                            IF delete_document_embeddings(completed) THEN 200 ELSE 500)
    /\ UNCHANGED <<documents, run, nreq, pending, lastStore, result_threshold,
                   fusion, chat, chunker, pdf>>

NextDelete ==
    \/ \E d \in Docs, file \in FileContents : parse_document(d, file, TRUE)
    \/ RunUpdateStatus(TRUE)
    \/ RunNotify(TRUE)
    \/ RunParse
    \/ \E ok \in BOOLEAN : RunEmbed(ok)
    \/ \E ok \in BOOLEAN : RunStore(ok)
    \/ RunUnexpectedError
    \/ \E d \in Docs, completed \in BOOLEAN : delete_document(d, completed)
    \/ \E d \in Docs, completed \in BOOLEAN : delete_document_vectors(d, completed)

SpecDelete == Init /\ [][NextDelete]_vars

\* C29: a delete-by-document request is answered with success exactly when
\* the delete-by-query of the index completed without error, and with 500
\* when it failed, on both routes.
C29_DeleteReportsIndexOutcome ==
    deletion.route # None =>
        /\ deletion.completed => deletion.http = 200
        /\ ~deletion.completed => deletion.http = 500

\* C30: once a delete request that arrived during the run of its document
\* has been acknowledged (its delete-by-query completed) and the run has
\* finished, the index holds no record of the document.
C30_DeleteDuringRunLeavesNoRecord ==
    (/\ deletion.route # None
     /\ deletion.http = 200
     /\ deletion.completed
     /\ deletion.during > 0
     /\ deletion.during = run.req
     /\ run.document_id = deletion.document_id
     /\ run.pc = "done") =>
        RecordsOf(index, deletion.document_id) = {}

====
